---- MODULE Spec2Model ----
(***************************************************************************)
(* First-person navigation and orientation controller of cave-sounds.      *)
(*                                                                         *)
(* Two revisions of the Player component are modelled side by side:        *)
(*   variant = "final"  : client/src/components/Player.tsx (the camera is  *)
(*                        rebuilt inside handleMouseMove)                  *)
(*   variant = "smooth" : unnamed/part_003 (handleMouseMove moves a target,*)
(*                        useFrame eases the current angles toward it)     *)
(*                                                                         *)
(* Numbers.  JavaScript doubles are modelled in fixed point:               *)
(*   angles               1 unit = 1/10000 rad                             *)
(*   quaternion, vectors  1 unit = 1/10000                                 *)
(*   position, velocity   1 unit = 1/1000 world unit                       *)
(*   frame time           1 tick = 1/240 s                                 *)
(* Products are rounded to the nearest unit, as a double rounds to the     *)
(* nearest representable value.  NaN and +/-Infinity are three reserved    *)
(* values handled by the Js* operators with the IEEE/ECMAScript rules.     *)
(***************************************************************************)
EXTENDS Integers, Sequences, FiniteSets, TLC

----------------------------------------------------------------------------
(* Fixed-point scales (not program constants, not bounds).                 *)
AngleScale == 100 * 100          \* angle units per radian
UnitScale  == 100 * 100          \* units per 1.0 of a quaternion/vector component
PosScale   == 10 * 100           \* position units per world unit
TicksPerSecond == 24 * 10        \* frame-time ticks per second

(* Reserved values for the non-finite doubles.  Infinity and -Infinity are *)
(* ordered like the numbers they stand for, so Math.min/Math.max on them   *)
(* need no special case; NaN is handled explicitly wherever it can occur.  *)
NaN    == 1000 * 1000 * 1000
PosInf == 900 * 1000 * 1000
NegInf == -PosInf

IsNaN(x) == x = NaN

Abs(x) == IF x < 0 THEN -x ELSE x

(* Division rounded to the nearest integer (ties away from zero), d > 0.   *)
RoundDiv(n, d) ==
    IF n >= 0 THEN (n + d \div 2) \div d
              ELSE -((d \div 2 - n) \div d)

(* ECMAScript number operations on the reserved values.                    *)
\* x * k for a finite positive constant k (movement * sensitivity)
JsScale(x, k) ==
    IF IsNaN(x) THEN NaN
    ELSE IF x = PosInf THEN PosInf
    ELSE IF x = NegInf THEN NegInf
    ELSE x * k

\* Math.min / Math.max: NaN if either argument is NaN
JsMin(a, b) == IF IsNaN(a) \/ IsNaN(b) THEN NaN ELSE IF a < b THEN a ELSE b
JsMax(a, b) == IF IsNaN(a) \/ IsNaN(b) THEN NaN ELSE IF a > b THEN a ELSE b

\* a - b with a and b finite or NaN (the operands here are never infinite)
JsSub(a, b) == IF IsNaN(a) \/ IsNaN(b) THEN NaN ELSE a - b

\* a + b, same domain
JsAdd(a, b) == IF IsNaN(a) \/ IsNaN(b) THEN NaN ELSE a + b

----------------------------------------------------------------------------
(* Program constants.                                                      *)
MAX_PITCH == 15708               \* Math.PI / 2, straight up
MIN_PITCH == -MAX_PITCH          \* -Math.PI / 2, straight down

\* the limits of the hard-limited revisions, in angle units
STRICT_MAX_PITCH == 5236         \* strict: MAX_PITCH = Math.PI / 6
MAX_YAW == 15708                 \* strict: Math.PI * 0.5
SOFT_PITCH_LIMIT == 6283         \* soft: Math.PI / 5
HARD_PITCH_LIMIT == 7854         \* soft: Math.PI / 4
SOFT_YAW_LIMIT == 18850          \* soft: Math.PI * 0.6
HARD_YAW_LIMIT == 23562          \* soft: Math.PI * 0.75
ValidationPeriod == 10           \* soft: validationCount.current % 10

\* mutant of PitchLimit: the pitch may go all the way round
PitchLimitWide(v) == 2 * MAX_PITCH

\* mutant of YawLimit: the yaw may go a half turn either way
YawLimitWide(v) == 2 * MAX_YAW

\* the absolute pitch limit of a hard-limited revision
PitchLimit(v) == IF v = "strict" THEN STRICT_MAX_PITCH ELSE HARD_PITCH_LIMIT
\* its absolute yaw limit
YawLimit(v) == IF v = "strict" THEN MAX_YAW ELSE HARD_YAW_LIMIT
\* the least cameraUp.y it accepts, in UnitScale: 0.7 and 0.4
UpFloor(v) == IF v = "strict" THEN 7000 ELSE 4000

\* const sensitivity, in angle units per pixel of pointer movement
sensitivity(v) == IF v = "smooth" THEN 15 ELSE 20
\* const maxDelta, in angle units
maxDelta(v) == IF v = "final" THEN 500 ELSE 250

lerpSpeed == 8                   \* smooth variant, useFrame
moveSpeed == 8                   \* world units per second
\* const dampening = 0.9, as a fraction
dampeningNum == 9
dampeningDen == 10
boundary    == 50                \* |x|, |z| limit in world units
heightLimit == 30                \* maximum y
floorLevel  == -10               \* minimum y
EyeHeight == 1600                \* camera.position.y = newPosition.y + 1.6
MountEyeHeight == 2000           \* camera.position.set(x, y + 2, z) at mount
InteractionRadius == 3           \* distanceToPlayer < 3

(* The camera the Canvas creates: at (0, 5, 10), looking at the origin, so *)
(* its YXZ Euler angles are yaw 0 and pitch -atan(5/10) = -0.4636 rad.     *)
InitCameraYaw   == 0
InitCameraPitch == -4636

----------------------------------------------------------------------------
(* Trigonometry in fixed point.  Arguments are in half-units (1/20000 rad) *)
(* so that the half angle of setFromAxisAngle is exact: SinHalf(a) is      *)
(* Math.sin(a / 2) for an angle a in angle units.                          *)
HalfScale == 2 * AngleScale
PiH       == 4 * MAX_PITCH       \* Math.PI in half-units
TwoPiH    == 2 * PiH

\* sin on [0, PI/2], Taylor series to x^9, result in 1/HalfScale
SinQuadrant(x) ==
    LET x2 == (x * x) \div HalfScale
        t4 == HalfScale - (x2 \div 72)
        t3 == HalfScale - (((x2 * t4) \div HalfScale) \div 42)
        t2 == HalfScale - (((x2 * t3) \div HalfScale) \div 20)
        t1 == HalfScale - (((x2 * t2) \div HalfScale) \div 6)
    IN  (x * t1) \div HalfScale

\* Math.sin of h half-units, result in 1/UnitScale; NaN propagates
SinH(h) ==
    IF IsNaN(h) THEN NaN
    ELSE LET r == h % TwoPiH
             s == IF r <= PiH \div 2 THEN SinQuadrant(r)
                  ELSE IF r <= PiH THEN SinQuadrant(PiH - r)
                  ELSE IF r <= PiH + PiH \div 2 THEN -SinQuadrant(r - PiH)
                  ELSE -SinQuadrant(TwoPiH - r)
         IN  RoundDiv(s * UnitScale, HalfScale)

CosH(h) == IF IsNaN(h) THEN NaN ELSE SinH(h + PiH \div 2)

SinHalf(a) == SinH(a)
CosHalf(a) == CosH(a)

(* Integer square root (floor), Newton iteration.                          *)
RECURSIVE NewtonSqrt(_, _)
NewtonSqrt(n, x) ==
    LET y == (x + n \div x) \div 2
    IN  IF y >= x THEN x ELSE NewtonSqrt(n, y)

ISqrt(n) == IF n <= 0 THEN 0 ELSE NewtonSqrt(n, n)

\* Math.sqrt rounded to the nearest unit
RoundSqrt(n) ==
    LET r == ISqrt(n) IN IF n - r * r > r THEN r + 1 ELSE r

----------------------------------------------------------------------------
(* THREE.Quaternion, as <<x, y, z, w>> in 1/UnitScale.  A NaN operand      *)
(* makes every component of a product NaN, as each component reads all     *)
(* eight operands.                                                         *)
QuatNaN      == <<NaN, NaN, NaN, NaN>>
QuatIdentity == <<0, 0, 0, UnitScale>>     \* setFromEuler(new Euler(0, 0, 0, 'YXZ'))

QuatHasNaN(q) == \E i \in 1..4 : IsNaN(q[i])

\* setFromAxisAngle(new Vector3(0, 1, 0), angle)
QuatFromAxisY(angle) ==
    IF IsNaN(angle) THEN QuatNaN ELSE <<0, SinHalf(angle), 0, CosHalf(angle)>>

\* setFromAxisAngle(new Vector3(1, 0, 0), angle)
QuatFromAxisX(angle) ==
    IF IsNaN(angle) THEN QuatNaN ELSE <<SinHalf(angle), 0, 0, CosHalf(angle)>>

\* Quaternion.multiplyQuaternions(a, b)
QuatMultiply(a, b) ==
    IF QuatHasNaN(a) \/ QuatHasNaN(b) THEN QuatNaN
    ELSE << RoundDiv(a[1]*b[4] + a[4]*b[1] + a[2]*b[3] - a[3]*b[2], UnitScale),
            RoundDiv(a[2]*b[4] + a[4]*b[2] + a[3]*b[1] - a[1]*b[3], UnitScale),
            RoundDiv(a[3]*b[4] + a[4]*b[3] + a[1]*b[2] - a[2]*b[1], UnitScale),
            RoundDiv(a[4]*b[4] - a[1]*b[1] - a[2]*b[2] - a[3]*b[3], UnitScale) >>

\* yawQuaternion * pitchQuaternion: yaw about world Y, then pitch about local X
ComposeYawPitch(y, p) == QuatMultiply(QuatFromAxisY(y), QuatFromAxisX(p))

\* mutant of ClampPitch: the lower limit is forgotten
ClampPitchNoFloor(p) == JsMin(MAX_PITCH, p)

\* mutant of ClampPitch: the clamp stops one step short of the limits
ClampPitchInset(p) == JsMax(MIN_PITCH + 1, JsMin(MAX_PITCH - 1, p))

\* Math.max(-limit, Math.min(limit, a))
ClampAngle(limit, a) == JsMax(-limit, JsMin(limit, a))

\* soft revision: the angle cur moved by -mouse, with the movement reduced
\* by up to strength/10 once the result passes the soft limit
Resist(soft, hard, strength, cur, mouse) ==
    IF Abs(cur - mouse) > soft
    THEN cur - RoundDiv(mouse * (UnitScale - RoundDiv(strength *
             JsMin(RoundDiv((Abs(cur - mouse) - soft) * UnitScale, hard - soft),
                   UnitScale), 10)), UnitScale)
    ELSE cur - mouse

\* x * num / den, as a correction of an angle toward the centre
Shrink(x, num, den) == RoundDiv(x * num, den)

\* Math.max(MIN_PITCH, Math.min(MAX_PITCH, p))
ClampPitch(p) == JsMax(MIN_PITCH, JsMin(MAX_PITCH, p))

\* mutant of ClampDelta: both variants cap at the final variant's maxDelta
ClampDeltaFinalCap(v, movement) ==
    JsMax(-maxDelta("final"),
          JsMin(maxDelta("final"), JsScale(movement, sensitivity(v))))

\* Math.max(-maxDelta, Math.min(maxDelta, movement * sensitivity))
ClampDelta(v, movement) ==
    JsMax(-maxDelta(v), JsMin(maxDelta(v), JsScale(movement, sensitivity(v))))

----------------------------------------------------------------------------
(* THREE.Vector3 as <<x, y, z>>.                                           *)
VecHasNaN(a) == \E i \in 1..3 : IsNaN(a[i])
VecAdd(a, b) == <<JsAdd(a[1], b[1]), JsAdd(a[2], b[2]), JsAdd(a[3], b[3])>>

\* Vector3.length(), same unit as the components; NaN if a component is NaN
VecLength(a) ==
    IF VecHasNaN(a) THEN NaN
    ELSE RoundSqrt(a[1] * a[1] + a[2] * a[2] + a[3] * a[3])

\* Vector3.normalize() = divideScalar(length() || 1), result in 1/UnitScale.
\* A zero vector stays zero; a NaN length is falsy, so NaN components stay.
VecNormalize(a) ==
    LET len == VecLength(a)
    IN  IF IsNaN(len) \/ len = 0 THEN a
        ELSE << RoundDiv(a[1] * UnitScale, len),
                RoundDiv(a[2] * UnitScale, len),
                RoundDiv(a[3] * UnitScale, len) >>

\* a.crossVectors(a, b)
VecCross(a, b) ==
    IF VecHasNaN(a) \/ VecHasNaN(b) THEN <<NaN, NaN, NaN>>
    ELSE << RoundDiv(a[2] * b[3] - a[3] * b[2], UnitScale),
            RoundDiv(a[3] * b[1] - a[1] * b[3], UnitScale),
            RoundDiv(a[1] * b[2] - a[2] * b[1], UnitScale) >>

CameraUp == <<0, UnitScale, 0>>      \* camera.up, Object3D.DEFAULT_UP
WorldUp  == <<0, UnitScale, 0>>      \* new THREE.Vector3(0, 1, 0)

\* camera.getWorldDirection(forward): the negated third column of the
\* rotation matrix of the camera quaternion, normalized
GetWorldDirection(q) ==
    IF QuatHasNaN(q) THEN <<NaN, NaN, NaN>>
    ELSE LET e8  == RoundDiv(2 * (q[1] * q[3] + q[4] * q[2]), UnitScale)
             e9  == RoundDiv(2 * (q[2] * q[3] - q[4] * q[1]), UnitScale)
             e10 == UnitScale - RoundDiv(2 * (q[1] * q[1] + q[2] * q[2]), UnitScale)
         IN  VecNormalize(<<-e8, -e9, -e10>>)

\* THREE.MathUtils.lerp(x, y, t) = (1 - t) * x + t * y with t = delta * lerpSpeed,
\* delta in ticks.  The factor t is not limited to [0, 1].
Lerp(x, y, delta) ==
    IF IsNaN(x) \/ IsNaN(y) \/ IsNaN(delta) THEN NaN
    ELSE RoundDiv((TicksPerSecond - lerpSpeed * delta) * x + lerpSpeed * delta * y,
                  TicksPerSecond)

\* +1, -1 or 0: the net number of times a vector is added to the direction
KeyAxis(keys, plus, minus) ==
    (IF plus \in keys THEN 1 ELSE 0) - (IF minus \in keys THEN 1 ELSE 0)

\* v * k for an integer k; 0 * NaN is not computed, as the key is not pressed
VecTimes(v, pressed, k) ==
    IF ~pressed THEN <<0, 0, 0>>
    ELSE IF VecHasNaN(v) THEN <<NaN, NaN, NaN>>
    ELSE <<v[1] * k, v[2] * k, v[3] * k>>

\* camera.getWorldDirection(forward); forward.normalize()
Forward(q) == VecNormalize(GetWorldDirection(q))
\* right.crossVectors(forward, camera.up).normalize()
Right(q) == VecNormalize(VecCross(Forward(q), CameraUp))

\* the movement direction of a frame: forward, right and world up, each added
\* or subtracted for the pressed keys (keys is the set of pressed controls)
Direction(q, keys) ==
    VecAdd(VecAdd(VecTimes(Forward(q), {"forward", "backward"} \cap keys # {},
                           KeyAxis(keys, "forward", "backward")),
                  VecTimes(Right(q), {"leftward", "rightward"} \cap keys # {},
                           KeyAxis(keys, "rightward", "leftward"))),
           VecTimes(WorldUp, {"upward", "downward"} \cap keys # {},
                    KeyAxis(keys, "upward", "downward")))

\* mutant of Impulse: the direction is scaled without being normalised
ImpulseUnnormalised(q, keys, delta) ==
    LET dir == Direction(q, keys)
        s   == RoundDiv(moveSpeed * delta * PosScale, TicksPerSecond)
    IN  IF VecHasNaN(dir) \/ dir = <<0, 0, 0>> THEN <<0, 0, 0>>
        ELSE << RoundDiv(dir[1] * s, UnitScale),
                RoundDiv(dir[2] * s, UnitScale),
                RoundDiv(dir[3] * s, UnitScale) >>

\* direction.normalize().multiplyScalar(moveSpeed * delta), in position units;
\* added to the velocity only if direction.length() > 0 (false for NaN)
Impulse(q, keys, delta) ==
    LET dir == Direction(q, keys)
        len == VecLength(dir)
        n   == VecNormalize(dir)
        s   == RoundDiv(moveSpeed * delta * PosScale, TicksPerSecond)
    IN  IF IsNaN(len) \/ len <= 0 THEN <<0, 0, 0>>
        ELSE IF IsNaN(delta) THEN <<NaN, NaN, NaN>>
        ELSE << RoundDiv(n[1] * s, UnitScale),
                RoundDiv(n[2] * s, UnitScale),
                RoundDiv(n[3] * s, UnitScale) >>

\* mutant of Dampen: the dampening factor is not applied
DampenNone(v) == v

\* velocity.multiplyScalar(dampening)
Dampen(v) ==
    IF VecHasNaN(v) THEN <<NaN, NaN, NaN>>
    ELSE << RoundDiv(v[1] * dampeningNum, dampeningDen),
            RoundDiv(v[2] * dampeningNum, dampeningDen),
            RoundDiv(v[3] * dampeningNum, dampeningDen) >>

\* mutant of NextVelocity: the dampening is applied before the impulse
NextVelocityDampenFirst(vel, q, keys, delta) ==
    VecAdd(Dampen(vel), Impulse(q, keys, delta))

\* mutant of NextVelocity: the impulse is added and the dampening left out
NextVelocityUndamped(vel, q, keys, delta) ==
    VecAdd(vel, Impulse(q, keys, delta))

\* the velocity after the frame: impulse, then dampening
NextVelocity(vel, q, keys, delta) == Dampen(VecAdd(vel, Impulse(q, keys, delta)))

\* mutant of ClampAxis: a soft wall that halves the excess
ClampAxisSoft(lo, hi, c) ==
    IF c > hi THEN hi + (c - hi) \div 2
    ELSE IF c < lo THEN lo - (lo - c) \div 2
    ELSE c

\* Math.max(lo, Math.min(hi, c))
ClampAxis(lo, hi, c) == JsMax(lo, JsMin(hi, c))

\* mutant of ClampPosition: the walls stop the player one step short
ClampPositionInset(p) ==
    << ClampAxis(-boundary * PosScale + 1, boundary * PosScale - 1, p[1]),
       ClampAxis(floorLevel * PosScale + 1, heightLimit * PosScale - 1, p[2]),
       ClampAxis(-boundary * PosScale + 1, boundary * PosScale - 1, p[3]) >>

\* mutant of ClampPosition: the vertical axis is not clamped
ClampPositionHorizontal(p) ==
    << ClampAxis(-boundary * PosScale, boundary * PosScale, p[1]),
       p[2],
       ClampAxis(-boundary * PosScale, boundary * PosScale, p[3]) >>

\* the per-axis boundary clamp of newPosition
ClampPosition(p) ==
    << ClampAxis(-boundary * PosScale, boundary * PosScale, p[1]),
       ClampAxis(floorLevel * PosScale, heightLimit * PosScale, p[2]),
       ClampAxis(-boundary * PosScale, boundary * PosScale, p[3]) >>

\* newPosition = clamp(playerPosition + velocity)
NextPosition(pos, vel) == ClampPosition(VecAdd(pos, vel))

----------------------------------------------------------------------------
(* Bounds of the checked environments.                                     *)
MaxYawSteps   == 1     \* |yaw - initial yaw| stays within MaxYawSteps * maxDelta
MaxPitchSteps == 2     \* same for the pitch, where the pitch is bounded
MaxFrames     == 4     \* frames per run, where frames are bounded
SteadyFrames  == 60    \* frames of a run that holds the forward key
MaxSamples    == 10    \* pointer samples of a session of the soft revision
MaxYawSweep   == 70    \* the yaw of Player.tsx is swept up to MaxYawSweep * maxDelta
MaxKeyFrames  == 2     \* frames of a run that presses several keys at once

----------------------------------------------------------------------------
(* State.                                                                  *)
VARIABLES
    variant,               \* which revision of Player is running
    yaw, pitch,            \* final: yaw.current, pitch.current
    targetYaw, targetPitch,    \* smooth: targetYaw.current, targetPitch.current
    currentYaw, currentPitch,  \* smooth: currentYaw.current, currentPitch.current
    cameraQuaternion,      \* camera.quaternion
    validationCount,       \* soft: validationCount.current
    pointerLockElement,    \* document.pointerLockElement: "null" or "body"
    lockRequested,         \* document.body.requestPointerLock() is pending
    isPointerLocked,       \* the useState value of the last committed render
    queuedIsPointerLocked, \* setIsPointerLocked argument not yet rendered, or "none"
    velocity,              \* velocity.current, position units per frame
    playerPosition,        \* useMusicExplorer().playerPosition
    cameraPosition,        \* camera.position
    meshPosition,          \* playerRef.current.position
    discovered,            \* songData.discovered of every song node
    currentSong,           \* useMusicExplorer().currentSong: a node id or "none"
    events,                \* history: the store calls made by the last click
    steadyDelta,           \* the frame time of the run, in the environments
                           \* that keep it constant (0 otherwise)
    allForward,            \* every frame so far had exactly "forward" pressed,
                           \* in the environments that record it
    frames,                \* frames run so far, in the environments that count
                           \* them (useFrame itself keeps no count)
    decayBase, decayFrames,\* history: velocity when the keys were last held, and
                           \* the number of key-less frames since
    dbSongs,               \* the rows of the songs table, by id
    songsMap,              \* MemStorage.songsMap, by id
    uploads,               \* the files of uploadDir, by the id of their song
    dbCaveObjects,         \* the rows of the caveObjects table: id -> color
    caveObjectsMap,        \* MemStorage.caveObjectsMap: id -> color
    issued,                \* history: the ids nanoid() has produced so far
    createdSongs,          \* history: songs whose createSong has returned and
                           \* whose deleteSong has not been called since
    removedSongs,          \* history: songs whose DELETE answered success
    removedCaveObjects,    \* history: objects whose deleteCaveObject returned
    response,              \* history: the last answer of the server
    lastInput              \* history: the last input the look controller
                           \* or a song node handled: "none", a mousemove
                           \* ("ignored", "applied", "clamped", and in the
                           \* hard-limited revisions "reset", "corrected"),
                           \* "resetKey", "frame" or "click"

orientationVars == <<yaw, pitch, targetYaw, targetPitch, currentYaw, currentPitch,
                     cameraQuaternion, validationCount>>
captureVars == <<pointerLockElement, lockRequested, isPointerLocked,
                 queuedIsPointerLocked>>
movementVars == <<velocity, playerPosition, cameraPosition, meshPosition,
                  decayBase, decayFrames>>
nodeVars == <<discovered, currentSong, events>>
\* what the environments keep about a run; no handler reads or writes it
envVars == <<frames, steadyDelta, allForward>>
\* the server: the database tables, the in-memory maps, the uploads directory
storeVars == <<dbSongs, songsMap, uploads, dbCaveObjects, caveObjectsMap>>
serverVars == <<storeVars, issued, createdSongs, removedSongs, removedCaveObjects,
                response>>
clientVars == <<variant, orientationVars, captureVars, movementVars, nodeVars,
                lastInput, envVars>>
vars == <<clientVars, serverVars>>

Variants == {"final", "smooth"}
\* the hard-limited revisions: "strict" (pitch within 30 degrees, yaw within
\* 90, emergency reset) and "soft" (pitch within 45 degrees, yaw within 135,
\* resistance near the limits, gentle correction)
HardVariants == {"strict", "soft"}

(* The initial player position of the useMusicExplorer store.              *)
InitPlayerPosition == <<0, 0, 0>>

(* The song nodes the store hands to Cave: two nodes, 2.99 and 3.01 units  *)
(* from the initial player position, undiscovered at the start.            *)
NodeIds == {"a", "b"}
NodePosition(id) == IF id = "a" THEN <<2990, 0, 0>> ELSE <<3010, 0, 0>>
InitDiscovered == FALSE

(* The isPointerLocked that handleKeyDown reads.  The handlers are created *)
(* by an effect whose dependency list is [camera]; the camera never        *)
(* changes, so the effect runs once, in the first render, and its handlers *)
(* keep the isPointerLocked of that render: the useState initial value.    *)
HandlerIsPointerLocked == FALSE

\* the songs and cave objects of a run, by the ids nanoid() gives them
MaxSongs == 2
MaxCaveObjects == 2
SongIds == 1 .. MaxSongs
CaveObjectIds == 1 .. MaxCaveObjects
\* the color column of a cave object; "undefined" is Map.get of a missing key
CaveColors == {"#ffffff", "#ff0000"}
Undefined == "undefined"

\* no request has been answered yet
NoResponse == [op |-> "none", status |-> 0, ids |-> {}]

(* The mount effect: angles from the camera's YXZ Euler angles, pitch      *)
(* clamped.                                                                *)
Mount(v) ==
    /\ variant = v
    /\ yaw = (IF v = "smooth" THEN 0 ELSE InitCameraYaw)
    /\ pitch = (IF v = "final" THEN ClampPitch(InitCameraPitch)
                ELSE IF v \in HardVariants
                     THEN ClampAngle(PitchLimit(v), InitCameraPitch)
                ELSE 0)
    /\ targetYaw = (IF v = "smooth" THEN InitCameraYaw ELSE 0)
    /\ currentYaw = targetYaw
    /\ targetPitch = (IF v = "smooth" THEN ClampPitch(InitCameraPitch) ELSE 0)
    /\ currentPitch = targetPitch
    /\ cameraQuaternion = ComposeYawPitch(InitCameraYaw, InitCameraPitch)
    /\ validationCount = 0
    /\ pointerLockElement = "null"
    /\ lockRequested = FALSE
    /\ isPointerLocked = FALSE
    /\ queuedIsPointerLocked = "none"
    /\ velocity = <<0, 0, 0>>
    /\ playerPosition = InitPlayerPosition
    /\ cameraPosition = VecAdd(InitPlayerPosition, <<0, MountEyeHeight, 0>>)
    /\ meshPosition = <<0, 0, 0>>
    /\ discovered = [id \in NodeIds |-> InitDiscovered]
    /\ currentSong = "none"
    /\ events = <<>>
    /\ frames = 0
    /\ steadyDelta = 0
    /\ allForward = TRUE
    /\ decayBase = <<0, 0, 0>>
    /\ decayFrames = 0
    /\ lastInput = "none"
    /\ dbSongs = {}
    /\ songsMap = {}
    /\ uploads = {}
    /\ dbCaveObjects = [id \in CaveObjectIds |-> Undefined]
    /\ caveObjectsMap = [id \in CaveObjectIds |-> Undefined]
    /\ issued = {}
    /\ createdSongs = {}
    /\ removedSongs = {}
    /\ removedCaveObjects = {}
    /\ response = NoResponse

Init == \E v \in Variants : Mount(v)

\* the mount of a hard-limited revision
InitHard == \E v \in HardVariants : Mount(v)

----------------------------------------------------------------------------
(* handleKeyDown(event), event.key = key.                                  *)
ResetCamera ==
    /\ pitch' = 0
    /\ yaw' = 0
    /\ targetPitch' = 0
    /\ currentPitch' = 0
    /\ targetYaw' = 0
    /\ currentYaw' = 0
    /\ cameraQuaternion' = QuatIdentity
    /\ UNCHANGED validationCount

HandleKeyDown(key) ==
    /\ lockRequested' =
          IF key \in {"l", "L"} /\ ~HandlerIsPointerLocked THEN TRUE ELSE lockRequested
    \* Escape: document.exitPointerLock() only if the handler's isPointerLocked
    /\ pointerLockElement' =
          IF key \notin {"l", "L"} /\ key = "Escape" /\ HandlerIsPointerLocked
          THEN "null" ELSE pointerLockElement
    /\ queuedIsPointerLocked' =
          IF pointerLockElement' # pointerLockElement THEN "false"
          ELSE queuedIsPointerLocked
    /\ IF key \in {"r", "R"} /\ HandlerIsPointerLocked
       THEN ResetCamera
       ELSE UNCHANGED orientationVars
    /\ lastInput' = IF key \in {"r", "R"} THEN "resetKey" ELSE lastInput
    /\ UNCHANGED <<variant, serverVars, isPointerLocked, movementVars, nodeVars, envVars>>

(* The browser grants a pending requestPointerLock(): the body becomes the *)
(* pointer lock element and pointerlockchange is dispatched.               *)
(* handlePointerLockChange calls setIsPointerLocked(true).                 *)
PointerLockGranted ==
    /\ lockRequested
    /\ lockRequested' = FALSE
    /\ pointerLockElement' = "body"
    /\ queuedIsPointerLocked' = "true"
    /\ UNCHANGED <<variant, serverVars, orientationVars, isPointerLocked, movementVars,
                   lastInput, nodeVars, envVars>>

(* The browser releases the pointer lock (the user presses Escape, the     *)
(* window loses focus); handlePointerLockChange calls                      *)
(* setIsPointerLocked(false).                                              *)
PointerLockReleased ==
    /\ pointerLockElement = "body"
    /\ pointerLockElement' = "null"
    /\ queuedIsPointerLocked' = "false"
    /\ UNCHANGED <<variant, serverVars, orientationVars, lockRequested, isPointerLocked,
                   movementVars, lastInput, nodeVars, envVars>>

(* React renders the queued state update.  Only the render function (and   *)
(* the useFrame callback, which is kept in a ref updated on every render)  *)
(* sees the new value.                                                     *)
Render ==
    /\ queuedIsPointerLocked # "none"
    /\ isPointerLocked' = (queuedIsPointerLocked = "true")
    /\ queuedIsPointerLocked' = "none"
    /\ UNCHANGED <<variant, serverVars, orientationVars, pointerLockElement, lockRequested,
                   movementVars, lastInput, nodeVars, envVars>>

(* handleMouseMove(event), sample = <<event.movementX, event.movementY>>.  *)
\* mutant of IsLockedToBody: the handler does not look at the lock
IsLockedToBodyUnchecked == TRUE

\* document.pointerLockElement === document.body
IsLockedToBody == pointerLockElement = "body"

\* mutant of HandleMouseMove: Player.tsx turns the camera orientation it
\* already has by the clamped deltas instead of rebuilding it
HandleMouseMoveIncremental(sample) ==
    /\ IF IsLockedToBody
       THEN /\ IF variant = "final"
               THEN /\ yaw' = JsSub(yaw, ClampDelta(variant, sample[1]))
                    /\ pitch' = ClampPitch(JsSub(pitch, ClampDelta(variant, sample[2])))
                    /\ cameraQuaternion' =
                          QuatMultiply(QuatMultiply(cameraQuaternion,
                              QuatFromAxisY(-ClampDelta(variant, sample[1]))),
                              QuatFromAxisX(-ClampDelta(variant, sample[2])))
                    /\ UNCHANGED <<targetYaw, targetPitch, currentYaw, currentPitch,
                                   validationCount>>
               ELSE /\ targetYaw' = JsSub(targetYaw, ClampDelta(variant, sample[1]))
                    /\ targetPitch' =
                          ClampPitch(JsSub(targetPitch, ClampDelta(variant, sample[2])))
                    /\ UNCHANGED <<yaw, pitch, currentYaw, currentPitch,
                                   cameraQuaternion, validationCount>>
            /\ lastInput' = "applied"
       ELSE /\ UNCHANGED orientationVars
            /\ lastInput' = "ignored"
    /\ UNCHANGED <<variant, serverVars, captureVars, movementVars, nodeVars, envVars>>

HandleMouseMove(sample) ==
    LET mouseX == ClampDelta(variant, sample[1])
        mouseY == ClampDelta(variant, sample[2])
        spike  == \/ JsScale(sample[1], sensitivity(variant)) # mouseX
                  \/ JsScale(sample[2], sensitivity(variant)) # mouseY
    IN
    /\ IF IsLockedToBody
       THEN /\ IF variant = "final"
               THEN /\ yaw' = JsSub(yaw, mouseX)
                    /\ pitch' = ClampPitch(JsSub(pitch, mouseY))
                    /\ cameraQuaternion' = ComposeYawPitch(yaw', pitch')
                    /\ UNCHANGED <<targetYaw, targetPitch, currentYaw, currentPitch,
                                   validationCount>>
               ELSE /\ targetYaw' = JsSub(targetYaw, mouseX)
                    /\ targetPitch' = ClampPitch(JsSub(targetPitch, mouseY))
                    /\ UNCHANGED <<yaw, pitch, currentYaw, currentPitch,
                                   cameraQuaternion, validationCount>>
            /\ lastInput' = IF spike THEN "clamped" ELSE "applied"
       ELSE /\ UNCHANGED orientationVars
            /\ lastInput' = "ignored"
    /\ UNCHANGED <<variant, serverVars, captureVars, movementVars, nodeVars, envVars>>

\* cameraUp.y for cameraUp = (0, 1, 0).applyQuaternion(q)
CameraUpY(q) ==
    IF QuatHasNaN(q) THEN NaN
    ELSE UnitScale - RoundDiv(2 * (q[1] * q[1] + q[3] * q[3]), UnitScale)

(* handleMouseMove of the strict revision.  refsInPlace is the outcome of  *)
(* the reference object test (the light projects above the screen centre  *)
(* and the black hole below); project(camera) uses the camera matrices of *)
(* the last render and the camera position, which the caller supplies.    *)
StrictMouseMove(sample, refsInPlace) ==
    LET newYaw == ClampAngle(YawLimit(variant),
                             JsSub(yaw, JsScale(sample[1], sensitivity(variant))))
        newPitch == ClampAngle(PitchLimit(variant),
                               JsSub(pitch, JsScale(sample[2], sensitivity(variant))))
        \* emergency reset by the reference test, else by cameraUp.y < 0.7
        reset == \/ ~refsInPlace
                 \/ CameraUpY(ComposeYawPitch(newYaw, newPitch)) < UpFloor(variant)
    IN
    /\ yaw' = IF reset THEN 0 ELSE newYaw
    /\ pitch' = IF reset THEN 0 ELSE newPitch
    /\ cameraQuaternion' = IF reset THEN QuatIdentity
                           ELSE ComposeYawPitch(newYaw, newPitch)
    /\ lastInput' = IF reset THEN "reset" ELSE "applied"
    /\ UNCHANGED <<targetYaw, targetPitch, currentYaw, currentPitch,
                   validationCount>>

(* handleMouseMove of the soft revision, for finite movements.             *)
(* correctionDue: the reference test fails and more than a second has     *)
(* passed since the last correction.                                      *)
SoftMouseMove(sample, correctionDue) ==
    LET newYaw == ClampAngle(YawLimit(variant),
                      Resist(SOFT_YAW_LIMIT, HARD_YAW_LIMIT, 8, yaw,
                             JsScale(sample[1], sensitivity(variant))))
        newPitch == ClampAngle(PitchLimit(variant),
                      Resist(SOFT_PITCH_LIMIT, HARD_PITCH_LIMIT, 9, pitch,
                             JsScale(sample[2], sensitivity(variant))))
        \* every ValidationPeriod-th sample may pull the angles to 70%
        corrected == validationCount' % ValidationPeriod = 0 /\ correctionDue
        \* cameraUp.y < 0.4 pulls them to 95%
        tilted == CameraUpY(cameraQuaternion') < UpFloor(variant)
        midYaw == IF corrected THEN Shrink(newYaw, 7, 10) ELSE newYaw
        midPitch == IF corrected THEN Shrink(newPitch, 7, 10) ELSE newPitch
    IN
    /\ validationCount' = validationCount + 1
    /\ cameraQuaternion' = ComposeYawPitch(newYaw, newPitch)
    /\ yaw' = IF tilted THEN Shrink(midYaw, 95, 100) ELSE midYaw
    /\ pitch' = IF tilted THEN Shrink(midPitch, 95, 100) ELSE midPitch
    /\ lastInput' = IF corrected \/ tilted THEN "corrected" ELSE "applied"
    /\ UNCHANGED <<targetYaw, targetPitch, currentYaw, currentPitch>>

\* handleMouseMove of the hard-limited revisions
HandleMouseMoveHard(sample, check) ==
    /\ IF IsLockedToBody
       THEN IF variant = "strict"
            THEN StrictMouseMove(sample, check)
            ELSE SoftMouseMove(sample, check)
       ELSE /\ UNCHANGED orientationVars
            /\ lastInput' = "ignored"
    /\ UNCHANGED <<variant, serverVars, captureVars, movementVars, nodeVars, envVars>>

\* useFrame of the smooth variant, first part: ease the current angles
\* toward the target and rebuild the camera orientation, only while
\* isPointerLocked; the final variant has no such part
EaseOrientation(delta) ==
    IF variant = "smooth" /\ isPointerLocked
    THEN /\ currentYaw' = Lerp(currentYaw, targetYaw, delta)
         /\ currentPitch' = Lerp(currentPitch, targetPitch, delta)
         /\ cameraQuaternion' = ComposeYawPitch(currentYaw', currentPitch')
         /\ UNCHANGED <<yaw, pitch, targetYaw, targetPitch, validationCount>>
    ELSE UNCHANGED orientationVars

\* setPlayerPosition(newPosition); the camera follows at eye height, the
\* player mesh at the position
Publish(newPosition) ==
    /\ playerPosition' = newPosition
    /\ cameraPosition' = VecAdd(newPosition, <<0, EyeHeight, 0>>)
    /\ meshPosition' = newPosition

\* history of the frames since the last frame with a key pressed
DecayHistory(keys) ==
    /\ decayBase' = IF keys # {} THEN velocity' ELSE decayBase
    /\ decayFrames' = IF keys # {} \/ decayBase = <<0, 0, 0>> THEN 0
                      ELSE decayFrames + 1

\* mutant of UseFrame: the movement direction is taken from the camera
\* orientation of the previous frame
UseFrameStaleOrientation(delta, keys) ==
    /\ EaseOrientation(delta)
    /\ velocity' = NextVelocity(velocity, cameraQuaternion, keys, delta)
    /\ Publish(NextPosition(playerPosition, velocity'))
    /\ DecayHistory(keys)
    /\ lastInput' = "frame"
    /\ UNCHANGED <<variant, serverVars, captureVars, nodeVars>>

\* mutant of UseFrame: the clamp also stops the velocity on a clamped axis
UseFrameStopAtWall(delta, keys) ==
    /\ EaseOrientation(delta)
    /\ velocity' =
          [i \in 1..3 |->
              IF ClampPosition(VecAdd(playerPosition,
                     NextVelocity(velocity, cameraQuaternion', keys, delta)))[i]
                   = VecAdd(playerPosition,
                         NextVelocity(velocity, cameraQuaternion', keys, delta))[i]
              THEN NextVelocity(velocity, cameraQuaternion', keys, delta)[i]
              ELSE 0]
    /\ Publish(NextPosition(playerPosition,
                            NextVelocity(velocity, cameraQuaternion', keys, delta)))
    /\ DecayHistory(keys)
    /\ lastInput' = "frame"
    /\ UNCHANGED <<variant, serverVars, captureVars, nodeVars>>

\* mutant of UseFrame: the position is published before it is clamped
UseFramePublishFirst(delta, keys) ==
    /\ EaseOrientation(delta)
    /\ velocity' = NextVelocity(velocity, cameraQuaternion', keys, delta)
    /\ Publish(VecAdd(playerPosition, velocity'))
    /\ DecayHistory(keys)
    /\ lastInput' = "frame"
    /\ UNCHANGED <<variant, serverVars, captureVars, nodeVars>>

(* useFrame((state, delta) => ...), delta in ticks, keys = getKeys() as    *)
(* the set of pressed controls.                                            *)
UseFrame(delta, keys) ==
    \* `if (!playerRef.current) return`: the ref is attached to the <group>
    \* the component renders, so it is set in every frame after mounting
    /\ EaseOrientation(delta)
    \* movement from the camera orientation as just updated
    /\ velocity' = NextVelocity(velocity, cameraQuaternion', keys, delta)
    /\ Publish(NextPosition(playerPosition, velocity'))
    /\ DecayHistory(keys)
    /\ lastInput' = "frame"
    /\ UNCHANGED <<variant, serverVars, captureVars, nodeVars>>

----------------------------------------------------------------------------
(* SongNode.                                                               *)

\* Vector3.distanceTo, squared
DistanceSq(a, b) ==
    (a[1] - b[1]) * (a[1] - b[1]) + (a[2] - b[2]) * (a[2] - b[2])
        + (a[3] - b[3]) * (a[3] - b[3])

\* isNearby = distanceToPlayer < 3, as rendered from the store's position
IsNearby(id) ==
    DistanceSq(NodePosition(id), playerPosition)
        < (InteractionRadius * PosScale) * (InteractionRadius * PosScale)

\* the store's discoverSongNode(id): the node becomes discovered
DiscoverSongNode(d, id) == [d EXCEPT ![id] = TRUE]

\* the store's setCurrentSong(song)
SetCurrentSong(id) == id

\* mutant of HandleClick: every click plays the node
HandleClickPlayAlways(id) ==
    /\ events' = << <<"setCurrentSong", id>> >>
    /\ currentSong' = SetCurrentSong(id)
    /\ lastInput' = "click"
    /\ UNCHANGED <<variant, serverVars, orientationVars, captureVars, movementVars, discovered,
                   envVars>>

(* handleClick of the node id: discover it if songData.discovered is       *)
(* false, play it otherwise (playSuccess and the console are left out).    *)
(* Nothing in the handler reads isNearby.                                  *)
HandleClick(id) ==
    /\ IF ~discovered[id]
       THEN /\ events' = << <<"discoverSongNode", id>> >>
            /\ discovered' = DiscoverSongNode(discovered, id)
            /\ UNCHANGED currentSong
       ELSE /\ events' = << <<"setCurrentSong", id>> >>
            /\ currentSong' = SetCurrentSong(id)
            /\ UNCHANGED discovered
    /\ lastInput' = "click"
    /\ UNCHANGED <<variant, serverVars, orientationVars, captureVars, movementVars, envVars>>

----------------------------------------------------------------------------
(* Environments.  Every specification runs the same handlers; they differ  *)
(* in the events the user and the browser produce.                         *)
Keys == {"l", "Escape", "r"}

\* a pointer movement far above maxDelta / sensitivity, in pixels
Spike == 1000

\* frame times in ticks
TypicalFrame  == TicksPerSecond \div 60               \* 1/60 s
FullStepFrame == TicksPerSecond \div lerpSpeed        \* delta * lerpSpeed = 1
OverStepFrame == 2 * (TicksPerSecond \div lerpSpeed)  \* delta * lerpSpeed = 2
StalledFrame  == TicksPerSecond                       \* 1 s

YawWithin(n) ==
    /\ IsNaN(yaw) \/ Abs(yaw - InitCameraYaw) <= n * maxDelta(variant)
    /\ IsNaN(targetYaw) \/ Abs(targetYaw - InitCameraYaw) <= n * maxDelta(variant)

PitchWithin(n) ==
    /\ IsNaN(pitch) \/ variant # "final"
          \/ Abs(pitch - InitCameraPitch) <= n * maxDelta(variant)
    /\ IsNaN(targetPitch) \/ variant # "smooth"
          \/ Abs(targetPitch - InitCameraPitch) <= n * maxDelta(variant)

\* the smoothed angles have reached the target
CaughtUp == targetYaw = currentYaw /\ targetPitch = currentPitch

\* the user moves the pointer only while the view is strictly inside the
\* explored range, or to come back into it
StaysNear ==
    /\ YawWithin(MaxYawSteps - 1) \/ YawWithin(MaxYawSteps)'
    /\ PitchWithin(MaxPitchSteps - 1) \/ PitchWithin(MaxPitchSteps)'

KeyDown == \E key \in Keys : HandleKeyDown(key)

(* Spec: a look session.  The user locks and releases the pointer, looks   *)
(* around near the initial orientation and presses no movement key.        *)
LookSamples ==
    {<<0, Spike>>, <<0, -Spike>>, <<Spike, 0>>, <<-Spike, 0>>, <<10, 0>>}
LookFrameTimes == {FullStepFrame, OverStepFrame}

MouseMove ==
    \E sample \in LookSamples :
        /\ CaughtUp
        /\ HandleMouseMove(sample)
        /\ StaysNear
Frame ==
    /\ \E delta \in LookFrameTimes : UseFrame(delta, {})
    /\ UNCHANGED envVars

Next ==
    \/ KeyDown
    \/ PointerLockGranted
    \/ PointerLockReleased
    \/ Render
    \/ MouseMove
    \/ Frame

Spec == Init /\ [][Next]_vars

(* SpecPitch: the user sweeps the pointer vertically over the whole pitch  *)
(* range, one pointer sample at a time: the next sample comes when the     *)
(* smoothed angles have caught up with the target.                         *)
PitchSamples == {<<0, Spike>>, <<0, -Spike>>}

MouseMovePitch ==
    /\ CaughtUp
    /\ \E sample \in PitchSamples : HandleMouseMove(sample)

NextPitch ==
    \/ KeyDown
    \/ PointerLockGranted
    \/ PointerLockReleased
    \/ Render
    \/ MouseMovePitch
    \/ Frame

SpecPitch == Init /\ [][NextPitch]_vars

(* SpecMove: the user sets the view up with one pointer sample at most,    *)
(* then walks for MaxFrames frames.  The keys are those App.tsx maps:      *)
(* forward, backward, leftward, rightward.                                 *)
MoveSamples == {<<Spike, 0>>, <<0, -Spike>>}
MoveFrameTimes == {TypicalFrame, StalledFrame}
MoveKeySets == {{}, {"forward"}, {"rightward"}, {"forward", "backward"}}

SetUp == frames = 0

KeyDownMove == SetUp /\ KeyDown
PointerLockGrantedMove == SetUp /\ PointerLockGranted
PointerLockReleasedMove == SetUp /\ PointerLockReleased
RenderMove == SetUp /\ Render
MouseMoveMove ==
    /\ SetUp
    /\ lastInput \in {"none", "ignored"}
    /\ \E sample \in MoveSamples : HandleMouseMove(sample)
FrameMove ==
    /\ frames < MaxFrames
    /\ frames' = frames + 1
    /\ UNCHANGED <<steadyDelta, allForward>>
    /\ \E delta \in MoveFrameTimes, keys \in MoveKeySets : UseFrame(delta, keys)

NextMove ==
    \/ KeyDownMove
    \/ PointerLockGrantedMove
    \/ PointerLockReleasedMove
    \/ RenderMove
    \/ MouseMoveMove
    \/ FrameMove

SpecMove == Init /\ [][NextMove]_vars

(* SpecMalformed: a look session in which the browser also delivers        *)
(* pointer samples whose movementX or movementY is NaN or +-Infinity.      *)
MalformedSamples == {<<NaN, 0>>, <<0, NaN>>, <<PosInf, 0>>, <<0, NegInf>>}
WellFormedSamples == {<<0, Spike>>, <<10, 0>>}

MouseMoveMalformed ==
    \E sample \in WellFormedSamples \cup MalformedSamples :
        /\ CaughtUp
        /\ HandleMouseMove(sample)
        /\ StaysNear

NextMalformed ==
    \/ KeyDown
    \/ PointerLockGranted
    \/ PointerLockReleased
    \/ Render
    \/ MouseMoveMalformed
    \/ Frame

SpecMalformed == Init /\ [][NextMalformed]_vars

(* SpecSteady: a run at a constant frame time.  The user sets the view up  *)
(* as in SpecMove, presses and releases forward freely for MaxFrames       *)
(* frames and then holds forward until SteadyFrames frames have run.       *)
SteadyFrameTimes == {TypicalFrame, 2 * TypicalFrame}
SteadyKeySets == {{}, {"forward"}}

FrameSteady ==
    /\ frames < SteadyFrames
    /\ frames' = frames + 1
    /\ \E delta \in SteadyFrameTimes,
          keys \in IF frames < MaxFrames THEN SteadyKeySets ELSE {{"forward"}} :
            /\ frames = 0 \/ delta = steadyDelta
            /\ steadyDelta' = delta
            /\ allForward' = (allForward /\ keys = {"forward"})
            /\ UseFrame(delta, keys)

NextSteady ==
    \/ KeyDownMove
    \/ PointerLockGrantedMove
    \/ PointerLockReleasedMove
    \/ RenderMove
    \/ MouseMoveMove
    \/ FrameSteady

SpecSteady == Init /\ [][NextSteady]_vars

(* SpecInteract: the user steps sideways near two song nodes, one just    *)
(* inside and one just outside the interaction radius, and clicks them.   *)
InteractKeySets == {{}, {"rightward"}, {"leftward"}}

FrameInteract ==
    /\ frames < MaxFrames
    /\ frames' = frames + 1
    /\ UNCHANGED <<steadyDelta, allForward>>
    /\ \E keys \in InteractKeySets : UseFrame(TypicalFrame, keys)

Click == \E id \in NodeIds : HandleClick(id)

NextInteract ==
    \/ FrameInteract
    \/ Click

SpecInteract == Init /\ [][NextInteract]_vars

(* SpecHard: a look session of the hard-limited revisions: the user      *)
(* sweeps the view with small and large pointer movements.               *)
Nudge == 100

HardSamples ==
    {<<0, Nudge>>, <<0, -Spike>>, <<0, Spike>>, <<-Spike, 0>>}

MouseMoveHard ==
    /\ validationCount < MaxSamples
    /\ \E sample \in HardSamples, check \in BOOLEAN :
          HandleMouseMoveHard(sample, check)

NextHard ==
    \/ KeyDown
    \/ PointerLockGranted
    \/ PointerLockReleased
    \/ Render
    \/ MouseMoveHard

SpecHard == InitHard /\ [][NextHard]_vars

(* SpecBadFrame: a walk in which the renderer hands some frames a frame   *)
(* time of NaN.                                                           *)
BadFrameTimes == {TypicalFrame, StalledFrame, NaN}
BadFrameKeySets == {{}, {"forward"}, {"backward"}}

FrameBad ==
    /\ frames < MaxFrames
    /\ frames' = frames + 1
    /\ UNCHANGED <<steadyDelta, allForward>>
    /\ \E delta \in BadFrameTimes, keys \in BadFrameKeySets : UseFrame(delta, keys)

NextBadFrame ==
    \/ KeyDownMove
    \/ PointerLockGrantedMove
    \/ PointerLockReleasedMove
    \/ RenderMove
    \/ FrameBad

SpecBadFrame == Init /\ [][NextBadFrame]_vars

(* SpecYaw: the user turns the view horizontally, in Player.tsx (no yaw   *)
(* limits) past a half turn, and in the strict revision (yaw limits).     *)
YawVariants == {"final", "strict"}
InitYaw == \E v \in YawVariants : Mount(v)

YawSamples == {<<Spike, 0>>, <<-Spike, 0>>, <<Nudge, 0>>, <<-Nudge, 0>>, <<10, 0>>}

MouseMoveYaw ==
    \E sample \in YawSamples :
        IF variant = "final"
        THEN /\ Abs(yaw) <= MaxYawSweep * maxDelta(variant)
             /\ HandleMouseMove(sample)
        ELSE \E check \in BOOLEAN : HandleMouseMoveHard(sample, check)

NextYaw ==
    \/ KeyDown
    \/ PointerLockGranted
    \/ PointerLockReleased
    \/ Render
    \/ MouseMoveYaw

SpecYaw == InitYaw /\ [][NextYaw]_vars

(* SpecKeys: after at most one pointer sample the user presses one, two   *)
(* or three movement keys at once, among the six controls useFrame reads. *)
SixKeySets ==
    {{}, {"forward"}, {"upward"}, {"downward"},
     {"forward", "rightward"}, {"forward", "backward"}, {"leftward", "rightward"},
     {"forward", "rightward", "upward"}, {"backward", "leftward", "downward"}}

FrameKeys ==
    /\ frames < MaxKeyFrames
    /\ frames' = frames + 1
    /\ UNCHANGED <<steadyDelta, allForward>>
    /\ \E keys \in SixKeySets : UseFrame(StalledFrame, keys)

NextKeys ==
    \/ KeyDownMove
    \/ PointerLockGrantedMove
    \/ PointerLockReleasedMove
    \/ RenderMove
    \/ MouseMoveMove
    \/ FrameKeys

SpecKeys == Init /\ [][NextKeys]_vars

----------------------------------------------------------------------------
(* Claims.                                                                 *)

\* the accumulated angles: yaw/pitch in final, targetYaw/targetPitch in smooth
AccYaw   == IF variant = "final" THEN yaw ELSE targetYaw
AccPitch == IF variant = "final" THEN pitch ELSE targetPitch

InPitchRange(p) == p # NaN /\ MIN_PITCH <= p /\ p <= MAX_PITCH

\* C1: after every pointer-move update the accumulated pitch (pitch in
\* Player.tsx, targetPitch in the smoothing variant) lies in
\* [MIN_PITCH, MAX_PITCH].
C1_PitchBound == InPitchRange(AccPitch)

\* C1 witness: the final variant has been pushed down past the limit and the
\* clamp has put the pitch at MIN_PITCH.
C1_Witness ==
    variant = "final" /\ pitch = MIN_PITCH /\ lastInput = "clamped"

\* C2: in the smoothing variant the smoothed currentPitch, from which the
\* camera orientation is built, lies in [MIN_PITCH, MAX_PITCH] after every
\* frame, for every frame time.
C2_CurrentPitchBound == variant = "smooth" => InPitchRange(currentPitch)

\* C3: after every executed frame the position handed to setPlayerPosition
\* satisfies x in [-50, 50], z in [-50, 50] and y in [-10, 30].
C3_PositionBound ==
    frames > 0 =>
        /\ -boundary * PosScale <= playerPosition[1]
        /\ playerPosition[1] <= boundary * PosScale
        /\ -boundary * PosScale <= playerPosition[3]
        /\ playerPosition[3] <= boundary * PosScale
        /\ floorLevel * PosScale <= playerPosition[2]
        /\ playerPosition[2] <= heightLimit * PosScale

\* C3 witness: walking forward and down has put the player on the floor and
\* on the z = -50 wall, with the velocity still pointing out of the cave.
C3_Witness ==
    /\ playerPosition[2] = floorLevel * PosScale
    /\ playerPosition[3] = -boundary * PosScale
    /\ velocity[2] < 0 /\ velocity[3] < 0

AnglesNeutral ==
    /\ yaw = 0 /\ pitch = 0
    /\ targetYaw = 0 /\ targetPitch = 0
    /\ currentYaw = 0 /\ currentPitch = 0

CaptureActive == pointerLockElement = "body" /\ isPointerLocked
CaptureInactive == pointerLockElement # "body" /\ ~isPointerLocked

\* C4: whenever a reset is performed (R pressed while the pointer is
\* captured), whatever the prior angles, the state right after it is
\* yaw = pitch = 0 (target and current angles 0 in the smoothing variant)
\* and the camera orientation is the identity.
C4_ResetDeterminism ==
    [][(HandleKeyDown("r") /\ CaptureActive)
          => (AnglesNeutral' /\ cameraQuaternion' = QuatIdentity)]_vars

\* C5: a reset pressed in either capture state, Active or Inactive, leaves
\* the angles at the neutral orientation and does not change the capture
\* state.
C5_ResetInEitherState ==
    [][HandleKeyDown("r")
          => (AnglesNeutral' /\ UNCHANGED <<pointerLockElement, isPointerLocked>>)]_vars

\* C6: a pointer sample consumed while the pointer is locked changes the
\* accumulated yaw by the scaled movement clamped to [-maxDelta, maxDelta]
\* and the accumulated pitch by at most maxDelta in magnitude, maxDelta
\* being 0.025 in the smoothing variant and 0.05 in Player.tsx.
C6_AntiSpike ==
    [][\A sample \in LookSamples :
          (HandleMouseMove(sample) /\ IsLockedToBody) =>
              LET raw == sample[1] * sensitivity(variant)
                  cap == IF variant = "final" THEN 500 ELSE 250
              IN  /\ raw > cap => AccYaw - AccYaw' = cap
                  /\ raw < -cap => AccYaw - AccYaw' = -cap
                  /\ Abs(raw) <= cap => AccYaw - AccYaw' = raw
                  /\ Abs(AccPitch' - AccPitch) <= cap]_vars

\* C6 witness: in the smoothing variant a spike to the right has been
\* consumed and has moved the target yaw by exactly 0.025 rad.
C6_Witness ==
    /\ variant = "smooth" /\ lastInput = "clamped"
    /\ targetYaw = InitCameraYaw - 250 /\ targetPitch = InitCameraPitch

\* C7: a pointer sample with a non-finite movementX or movementY contributes
\* zero to both angles, and no non-finite value is stored in yaw, pitch or
\* the camera orientation.
C7_MalformedAbsorbed ==
    [][\A sample \in MalformedSamples :
          HandleMouseMove(sample) =>
              /\ AccYaw' = AccYaw /\ AccPitch' = AccPitch
              /\ ~QuatHasNaN(cameraQuaternion')]_vars

\* C8 (as stated): while pointer lock is not held by document.body, no
\* pointer-move event and no frame changes yaw, pitch or the camera
\* orientation.
C8_FrozenWhileUnlocked ==
    [][pointerLockElement # "body" => UNCHANGED orientationVars]_vars

\* C8 (amended): while pointer lock is not held by document.body and the
\* component has rendered isPointerLocked = false, no pointer-move event
\* and no frame changes yaw, pitch or the camera orientation.
C8_FrozenWhileInactive ==
    [][CaptureInactive => UNCHANGED orientationVars]_vars

\* C8 witness: the view has been turned, the lock released and rendered,
\* and a pointer sample has then been ignored.
C8_Witness ==
    /\ CaptureInactive /\ lastInput = "ignored"
    /\ AccPitch # InitCameraPitch

\* C9: a delta sampled before capture was cancelled is still applied: the
\* frame that follows the cancellation moves the smoothed angles toward the
\* target that the sample set.
C9_SampledDeltaApplied ==
    [][((\E delta \in LookFrameTimes : UseFrame(delta, {}))
           /\ variant = "smooth" /\ pointerLockElement # "body" /\ ~CaughtUp)
          => (currentYaw' # currentYaw \/ currentPitch' # currentPitch)]_vars

RECURSIVE Pow(_, _)
Pow(b, n) == IF n = 0 THEN 1 ELSE b * Pow(b, n - 1)

\* C10: after N consecutive frames with no movement key pressed the velocity
\* is v0 * 0.9^N, v0 being the velocity before them, whatever the frame
\* times and whether or not the position was clamped (up to half a
\* fixed-point unit of rounding per frame).
C10_VelocityDecay ==
    \A i \in 1..3 :
        2 * Abs(velocity[i] * Pow(dampeningDen, decayFrames)
                  - decayBase[i] * Pow(dampeningNum, decayFrames))
            <= decayFrames * Pow(dampeningDen, decayFrames)

\* C10 witness: two key-less frames have passed since the last impulse, the
\* player is held on the floor by the clamp and is still moving.
C10_Witness ==
    /\ decayFrames = 2 /\ playerPosition[2] = floorLevel * PosScale
    /\ velocity[2] < 0 /\ velocity[3] < 0

\* the speed the velocity settles at while a key is held at frame time
\* delta when the steady state is taken as moveSpeed * dt / (1 - dampening)
ClaimedSteadySpeed(delta) ==
    RoundDiv(moveSpeed * delta * PosScale * dampeningDen,
             TicksPerSecond * (dampeningDen - dampeningNum))

\* the fixed point of v = (v + moveSpeed * dt) * dampening
SteadySpeed(delta) ==
    RoundDiv(moveSpeed * delta * PosScale * dampeningNum,
             TicksPerSecond * (dampeningDen - dampeningNum))

HeldForwardToTheEnd == frames = SteadyFrames /\ allForward

\* C11 (as stated): from zero velocity, after holding forward for 60 frames
\* at a constant frame time the speed is within 1% of
\* moveSpeed * dt / (1 - dampening), 1.33 units per frame at dt = 1/60.
C11_SteadySpeedClaimed ==
    HeldForwardToTheEnd =>
        100 * Abs(VecLength(velocity) - ClaimedSteadySpeed(steadyDelta))
            <= ClaimedSteadySpeed(steadyDelta)

\* C11 (amended): from zero velocity, after holding forward for 60 frames at
\* a constant frame time the speed is within 1% of
\* dampening * moveSpeed * dt / (1 - dampening), 1.2 units per frame at
\* dt = 1/60.
C11_SteadySpeed ==
    HeldForwardToTheEnd =>
        100 * Abs(VecLength(velocity) - SteadySpeed(steadyDelta))
            <= SteadySpeed(steadyDelta)

\* C11 witness: forward has been held for all SteadyFrames frames at 1/60 s
\* and the player moves.
C11_Witness ==
    /\ HeldForwardToTheEnd /\ steadyDelta = TypicalFrame
    /\ VecLength(velocity) > 0

\* C12: from zero velocity, for every sequence of key states at a constant
\* frame time, the speed after every frame is finite and at most
\* moveSpeed * dt / (1 - dampening).
C12_VelocityBound ==
    /\ ~VecHasNaN(velocity)
    /\ VecLength(velocity) * (dampeningDen - dampeningNum) * TicksPerSecond
          <= moveSpeed * steadyDelta * PosScale * dampeningDen

\* C12 witness: after a long hold the speed has come within 15% of the
\* bound.
C12_Witness ==
    /\ frames = SteadyFrames
    /\ 100 * VecLength(velocity) >= 85 * ClaimedSteadySpeed(steadyDelta)
    /\ steadyDelta > 0

\* C13: a click on a song node calls discoverSongNode or setCurrentSong
\* only if the node is less than the interaction radius 3 away from the
\* player position.
C13_ProximityGating ==
    [][\A id \in NodeIds :
          HandleClick(id) => (events' # <<>> => IsNearby(id))]_vars

\* C14: each click on a node makes exactly one store call, chosen by the
\* node's discovered flag at that moment: discoverSongNode(id) when it is
\* false, setCurrentSong when it is true; so the current song is always a
\* discovered node.
C14_DiscoverOrActivate ==
    /\ [](currentSong # "none" => discovered[currentSong])
    /\ [][\A id \in NodeIds :
             HandleClick(id) =>
                 /\ Len(events') = 1
                 /\ discovered[id] => events'[1] = <<"setCurrentSong", id>>
                 /\ ~discovered[id] => events'[1] = <<"discoverSongNode", id>>]_vars

\* C14 witness: node a has been discovered by a first click and played by a
\* second one, node b is still undiscovered.
C14_Witness ==
    /\ events = << <<"setCurrentSong", "a">> >> /\ currentSong = "a"
    /\ discovered["a"] /\ ~discovered["b"]

\* the position the frame clamps: playerPosition + the frame's new velocity
RawPosition == VecAdd(playerPosition, velocity')

\* C15: the boundary clamp of the frame loop is idempotent: clamping the
\* clamped position of a frame again gives the same position, and the
\* position a frame publishes, being inside the bounds, is returned
\* unchanged by the clamp.
C15_ClampIdempotent ==
    [][frames' # frames =>
          /\ ClampPosition(ClampPosition(RawPosition)) = ClampPosition(RawPosition)
          /\ ClampPosition(playerPosition') = playerPosition']_vars

\* C15 witness: after three frames or more the player stands on the floor
\* y = -10 and the last frame's step, more than 10 units downward, was cut
\* at the floor.
C15_Witness ==
    /\ frames >= 3
    /\ lastInput = "frame"
    /\ playerPosition[2] = floorLevel * PosScale
    /\ velocity[2] < floorLevel * PosScale

\* the bounds of the axis i
AxisLow(i) == IF i = 2 THEN floorLevel * PosScale ELSE -boundary * PosScale
AxisHigh(i) == IF i = 2 THEN heightLimit * PosScale ELSE boundary * PosScale

\* C16: in every frame, on each axis separately, the new coordinate is the
\* bound exactly when position + velocity exceeds it, and is position +
\* velocity itself when that is in range.
C16_ExactSaturation ==
    [][frames' # frames =>
          \A i \in 1..3 :
              /\ RawPosition[i] > AxisHigh(i) => playerPosition'[i] = AxisHigh(i)
              /\ RawPosition[i] < AxisLow(i) => playerPosition'[i] = AxisLow(i)
              /\ (AxisLow(i) <= RawPosition[i] /\ RawPosition[i] <= AxisHigh(i))
                     => playerPosition'[i] = RawPosition[i]]_vars

\* C16 witness: the player is held exactly on the floor y = -10 with the
\* velocity still pointing down, while x and z have moved freely and are
\* strictly inside the walls.
C16_Witness ==
    /\ lastInput = "frame"
    /\ playerPosition[2] = floorLevel * PosScale /\ velocity[2] < 0
    /\ velocity[1] # 0 /\ Abs(playerPosition[1]) < boundary * PosScale
    /\ velocity[3] # 0 /\ Abs(playerPosition[3]) < boundary * PosScale
    /\ playerPosition[1] # 0 /\ playerPosition[3] # 0

\* C17: in every frame the velocity impulse is built from the camera
\* orientation as that same frame has updated it: the new velocity is the
\* one obtained from the post-update orientation for the frame's keys and
\* frame time.
C17_OrientationBeforeMovement ==
    [][frames' # frames =>
          \E delta \in MoveFrameTimes, keys \in MoveKeySets :
              velocity' = NextVelocity(velocity, cameraQuaternion', keys, delta)]_vars

\* C17 witness: the first frame of the smoothing variant has turned the
\* camera away from its mount orientation and, with forward held, has
\* produced the velocity of the turned orientation, which differs from the
\* velocity the mount orientation would have given.
C17_Witness ==
    /\ variant = "smooth" /\ frames = 1 /\ lastInput = "frame"
    /\ cameraQuaternion # ComposeYawPitch(InitCameraYaw, InitCameraPitch)
    /\ \E delta \in MoveFrameTimes :
          /\ velocity = NextVelocity(<<0, 0, 0>>, cameraQuaternion,
                                     {"forward"}, delta)
          /\ velocity # NextVelocity(<<0, 0, 0>>,
                                     ComposeYawPitch(InitCameraYaw, InitCameraPitch),
                                     {"forward"}, delta)

\* C18: every position a frame publishes is the clamped one: after any
\* frame the store's playerPosition lies inside the bounds, the player mesh
\* is at that position and the camera is at it, raised by the eye height.
C18_ClampBeforePublish ==
    frames > 0 =>
        /\ ClampPosition(playerPosition) = playerPosition
        /\ meshPosition = playerPosition
        /\ cameraPosition = VecAdd(playerPosition, <<0, EyeHeight, 0>>)

\* C18 witness: a frame whose step went through the z = -50 wall has
\* published the position on the wall to the store, the mesh and the camera.
C18_Witness ==
    /\ lastInput = "frame"
    /\ playerPosition[3] = -boundary * PosScale /\ velocity[3] < 0
    /\ meshPosition[3] = -boundary * PosScale
    /\ cameraPosition[3] = -boundary * PosScale

\* x lies between a and b, inclusive
Between(a, x, b) == (a <= x /\ x <= b) \/ (b <= x /\ x <= a)

\* C19: in every frame of the smoothing variant the new current yaw and
\* pitch lie between the old current value and the target, and the
\* distance to the target does not grow.
C19_NoOvershoot ==
    [][(variant = "smooth" /\ lastInput' = "frame") =>
          /\ Between(currentYaw, currentYaw', targetYaw)
          /\ Between(currentPitch, currentPitch', targetPitch)
          /\ Abs(targetYaw - currentYaw') <= Abs(targetYaw - currentYaw)
          /\ Abs(targetPitch - currentPitch') <= Abs(targetPitch - currentPitch)]_vars

\* C20: in the hard-limited revisions (pitch limit PI/6 or PI/4) the
\* vertical component of the camera's up vector is above 0 after every
\* pointer update.
C20_NoFlip ==
    lastInput \in {"applied", "reset", "corrected"} =>
        CameraUpY(cameraQuaternion) > 0

\* C20 witness: the strict revision looks down at its limit of 30 degrees,
\* where the up vector's vertical component is cos(30 degrees), without a
\* reset.
C20_Witness ==
    /\ variant = "strict" /\ lastInput = "applied"
    /\ pitch = -STRICT_MAX_PITCH
    /\ CameraUpY(cameraQuaternion) > 0
    /\ CameraUpY(cameraQuaternion) < 8700

\* C21: a frame with a non-finite frame time or integrated position is
\* discarded: the published position and the velocity never hold NaN.
C21_BadFrameDiscarded ==
    ~VecHasNaN(playerPosition) /\ ~VecHasNaN(velocity)

\* C22: in the strict revision the yaw lies in [-PI/2, PI/2] after every
\* pointer update; in Player.tsx every pointer update leaves the yaw at the
\* previous yaw minus the clamped horizontal delta, with no clamp and no
\* wrap-around.
C22_YawLimits ==
    /\ [](variant = "strict" => (-MAX_YAW <= yaw /\ yaw <= MAX_YAW))
    /\ [][variant = "final" =>
             \A sample \in YawSamples :
                 (IsLockedToBody /\ HandleMouseMove(sample)) =>
                     yaw' = yaw - ClampDelta(variant, sample[1])]_vars

\* C22 witness: in Player.tsx the yaw has been turned past a half turn
\* (below -PI) by pointer updates and is stored as it is.
C22_Witness ==
    /\ variant = "final" /\ lastInput \in {"applied", "clamped"}
    /\ yaw < -2 * MAX_PITCH

\* moveSpeed * delta, in position units
ImpulseLength(delta) == RoundDiv(moveSpeed * delta * PosScale, TicksPerSecond)

\* C23: for the camera orientation at hand and every set of pressed keys,
\* the impulse of a frame has length moveSpeed * dt (to the rounding of the
\* arithmetic) when the sum of the selected direction vectors is not zero,
\* and is zero when that sum is zero; upward alone and downward alone give
\* an impulse along the world up axis whatever the orientation.
C23_NormalisedImpulse ==
    /\ \A keys \in SixKeySets :
          IF Direction(cameraQuaternion, keys) = <<0, 0, 0>>
          THEN Impulse(cameraQuaternion, keys, StalledFrame) = <<0, 0, 0>>
          ELSE Abs(VecLength(Impulse(cameraQuaternion, keys, StalledFrame))
                       - ImpulseLength(StalledFrame)) <= 2
    /\ Impulse(cameraQuaternion, {"upward"}, StalledFrame)
           = <<0, ImpulseLength(StalledFrame), 0>>
    /\ Impulse(cameraQuaternion, {"downward"}, StalledFrame)
           = <<0, -ImpulseLength(StalledFrame), 0>>

\* C23 witness: with the view turned, a first frame with forward, rightward
\* and upward pressed together has added an impulse of length
\* moveSpeed * dt, not three times that, and dampened it.
C23_Witness ==
    /\ frames = 1 /\ lastInput = "frame"
    /\ cameraQuaternion # ComposeYawPitch(InitCameraYaw, InitCameraPitch)
    /\ velocity = NextVelocity(<<0, 0, 0>>, cameraQuaternion,
                               {"forward", "rightward", "upward"}, StalledFrame)
    /\ Abs(VecLength(velocity) * dampeningDen
               - ImpulseLength(StalledFrame) * dampeningNum) <= 2 * dampeningDen

\* C24: the camera orientation is the composition yaw rotation * pitch
\* rotation of the stored angles (yaw and pitch in Player.tsx, currentYaw
\* and currentPitch in the smoothing variant) in every state, so it depends
\* on the angles only and not on the history of deltas and resets.
C24_OrientationFromAngles ==
    /\ variant = "final" =>
          cameraQuaternion = QuatMultiply(QuatFromAxisY(yaw), QuatFromAxisX(pitch))
    /\ variant = "smooth" =>
          cameraQuaternion =
              QuatMultiply(QuatFromAxisY(currentYaw), QuatFromAxisX(currentPitch))

\* C24 witness: pointer updates of Player.tsx have changed both the yaw and
\* the pitch, and the orientation is the one rebuilt from them.
C24_Witness ==
    /\ variant = "final" /\ lastInput \in {"applied", "clamped"}
    /\ yaw # InitCameraYaw /\ pitch # InitCameraPitch
    /\ cameraQuaternion = QuatMultiply(QuatFromAxisY(yaw), QuatFromAxisX(pitch))

\* C25: with the pitch limits [-PI/2, PI/2], a pointer update whose delta
\* would take the accumulated pitch below -PI/2 stores exactly -PI/2; from
\* -PI/2 a further downward delta leaves it at -PI/2 and an upward delta
\* raises it by exactly the applied (clamped) delta.
C25_PitchSaturation ==
    [][\A sample \in PitchSamples :
          (IsLockedToBody /\ HandleMouseMove(sample)) =>
              /\ AccPitch - ClampDelta(variant, sample[2]) < MIN_PITCH
                     => AccPitch' = MIN_PITCH
              /\ (AccPitch = MIN_PITCH /\ ClampDelta(variant, sample[2]) >= 0)
                     => AccPitch' = MIN_PITCH
              /\ (AccPitch = MIN_PITCH /\ ClampDelta(variant, sample[2]) < 0)
                     => AccPitch' = MIN_PITCH - ClampDelta(variant, sample[2])]_vars

\* C25 witness: the accumulated pitch stands exactly one clamped delta above
\* -PI/2, a value the downward sweep from the mount pitch does not pass
\* through: it was saturated at -PI/2 and the first upward delta raised it.
C25_Witness ==
    /\ lastInput = "clamped"
    /\ AccPitch = MIN_PITCH + maxDelta(variant)
    /\ (AccPitch - InitCameraPitch) % maxDelta(variant) # 0

\* C26: whenever a pointer update of a hard-limited revision detects an
\* orientation failure (failed reference object test, tilted up vector), it
\* resets fully: yaw = 0, pitch = 0 and the neutral camera orientation.
C26_FullReset ==
    [][(variant \in HardVariants /\ lastInput' \in {"reset", "corrected"}
           /\ <<yaw, pitch, cameraQuaternion, validationCount, lastInput>>
                  # <<yaw, pitch, cameraQuaternion, validationCount, lastInput>>')
          => (yaw' = 0 /\ pitch' = 0 /\ cameraQuaternion' = QuatIdentity)]_vars

\* the player is on a bound of the axis i
OnBound(p, i) == p[i] = AxisLow(i) \/ p[i] = AxisHigh(i)

\* C27: the boundary clamp changes the position only: in a frame that
\* leaves the player on a boundary the new velocity is still the one the
\* keys and the dampening give, and a player on a boundary whose velocity
\* on that axis still points outward stays on the boundary.
C27_ClampKeepsVelocity ==
    [][frames' # frames =>
          /\ (\E i \in 1..3 : OnBound(playerPosition', i)) =>
                 \E delta \in MoveFrameTimes, keys \in MoveKeySets :
                     velocity' = NextVelocity(velocity, cameraQuaternion', keys, delta)
          /\ \A i \in 1..3 :
                 /\ (playerPosition[i] = AxisLow(i) /\ velocity'[i] <= 0)
                        => playerPosition'[i] = AxisLow(i)
                 /\ (playerPosition[i] = AxisHigh(i) /\ velocity'[i] >= 0)
                        => playerPosition'[i] = AxisHigh(i)]_vars

\* C27 witness: the player is held on the floor by the clamp after one or
\* more frames without a key, and the downward velocity is not zero: it is
\* the velocity of the last frame with a key, decayed by 0.9 per frame.
C27_Witness ==
    /\ lastInput = "frame" /\ decayFrames >= 1
    /\ playerPosition[2] = floorLevel * PosScale
    /\ velocity[2] < 0
    /\ 2 * Abs(velocity[2] * Pow(dampeningDen, decayFrames)
                 - decayBase[2] * Pow(dampeningNum, decayFrames))
           <= decayFrames * Pow(dampeningDen, decayFrames)

----------------------------------------------------------------------------
(* The server: MemStorage over the database tables and its in-memory maps, *)
(* and the routes that call it. Every database call of a method either     *)
(* resolves (ok) or rejects; the methods catch the rejection. Songs and     *)
(* cave objects are identified by the ids nanoid() gives them.              *)

\* the ids of the rows of a cave object table or map
Ids(m) == {id \in DOMAIN m : m[id] # Undefined}

\* nanoid(): an id that was never produced before
Fresh(kind, id) == <<kind, id>> \notin issued

\* MemStorage.getAllSongs: the rows of the table, and only when the query
\* rejects, the values of songsMap
getAllSongs(ok) == IF ok THEN dbSongs ELSE songsMap

\* MemStorage.getSong: result[0] of the query if there is one; after an
\* empty result or a rejection, songsMap.get(id). The result is the set of
\* songs found: empty for undefined.
getSong(id, ok) ==
    IF ok /\ id \in dbSongs THEN {id} ELSE {id} \cap songsMap

\* MemStorage.createSong: the insert, and only when it rejects, songsMap.set
createSong(id, ok) ==
    /\ dbSongs' = (IF ok THEN dbSongs \cup {id} ELSE dbSongs)
    /\ songsMap' = (IF ok THEN songsMap ELSE songsMap \cup {id})

\* MemStorage.deleteSong: the delete, whose rejection is only logged, and
\* then songsMap.delete
deleteSong(id, ok) ==
    /\ dbSongs' = (IF ok THEN dbSongs \ {id} ELSE dbSongs)
    /\ songsMap' = songsMap \ {id}

\* MemStorage.getAllCaveObjects
getAllCaveObjects(ok) == IF ok THEN Ids(dbCaveObjects) ELSE Ids(caveObjectsMap)

\* MemStorage.getCaveObject: result[0] of the query, and only when it
\* rejects, caveObjectsMap.get(id)
getCaveObject(id, ok) ==
    IF ok THEN {id} \cap Ids(dbCaveObjects) ELSE {id} \cap Ids(caveObjectsMap)

\* MemStorage.createCaveObject: caveObjectsMap.set first, then the insert
createCaveObject(id, color, ok) ==
    /\ caveObjectsMap' = [caveObjectsMap EXCEPT ![id] = color]
    /\ dbCaveObjects' = (IF ok THEN [dbCaveObjects EXCEPT ![id] = color]
                         ELSE dbCaveObjects)

\* MemStorage.updateCaveObject: the update of the row, and only when it
\* rejects, the update of the map entry if there is one
updateCaveObject(id, color, ok) ==
    /\ dbCaveObjects' = (IF ok /\ id \in Ids(dbCaveObjects)
                         THEN [dbCaveObjects EXCEPT ![id] = color]
                         ELSE dbCaveObjects)
    /\ caveObjectsMap' = (IF ~ok /\ id \in Ids(caveObjectsMap)
                          THEN [caveObjectsMap EXCEPT ![id] = color]
                          ELSE caveObjectsMap)

\* MemStorage.deleteCaveObject: the delete of the row, and only when it
\* rejects, caveObjectsMap.delete
deleteCaveObject(id, ok) ==
    /\ dbCaveObjects' = (IF ok THEN [dbCaveObjects EXCEPT ![id] = Undefined]
                         ELSE dbCaveObjects)
    /\ caveObjectsMap' = (IF ok THEN caveObjectsMap
                          ELSE [caveObjectsMap EXCEPT ![id] = Undefined])

Answer(op, status, ids) == [op |-> op, status |-> status, ids |-> ids]

caveVars == <<dbCaveObjects, caveObjectsMap, removedCaveObjects>>
songVars == <<dbSongs, songsMap, uploads, createdSongs, removedSongs>>

\* POST /api/upload-audio: multer has stored the file (or there was none),
\* the song gets a fresh id and createSong stores it
UploadAudio(hasFile, id, ok) ==
    /\ Fresh("song", id)
    /\ IF hasFile
       THEN /\ issued' = issued \cup {<<"song", id>>}
            /\ uploads' = uploads \cup {id}
            /\ createSong(id, ok)
            /\ createdSongs' = createdSongs \cup {id}
            /\ response' = Answer("POST /api/upload-audio", 200, {id})
       ELSE /\ response' = Answer("POST /api/upload-audio", 400, {})
            /\ UNCHANGED <<issued, uploads, dbSongs, songsMap, createdSongs>>
    /\ UNCHANGED <<removedSongs, caveVars, clientVars>>

\* GET /api/songs
GetSongs(ok) ==
    /\ response' = Answer("GET /api/songs", 200, getAllSongs(ok))
    /\ UNCHANGED <<songVars, caveVars, issued, clientVars>>

\* a call of storage.getSong(id)
GetSong(id, ok) ==
    /\ response' = Answer("getSong", 200, getSong(id, ok))
    /\ UNCHANGED <<songVars, caveVars, issued, clientVars>>

\* DELETE /api/songs/:id: getSong, 404 if it finds nothing, else unlink of
\* the file (a failure is only logged), deleteSong, and success
DeleteSongRoute(id, okGet, okDelete) ==
    /\ IF getSong(id, okGet) = {}
       THEN /\ response' = Answer("DELETE /api/songs/:id", 404, {})
            /\ UNCHANGED songVars
       ELSE /\ uploads' = uploads \ {id}
            /\ deleteSong(id, okDelete)
            /\ createdSongs' = createdSongs \ {id}
            /\ removedSongs' = removedSongs \cup {id}
            /\ response' = Answer("DELETE /api/songs/:id", 200, {id})
    /\ UNCHANGED <<caveVars, issued, clientVars>>

\* GET /api/cave-objects
GetCaveObjects(ok) ==
    /\ response' = Answer("GET /api/cave-objects", 200, getAllCaveObjects(ok))
    /\ UNCHANGED <<songVars, caveVars, issued, clientVars>>

\* a call of storage.getCaveObject(id)
GetCaveObject(id, ok) ==
    /\ response' = Answer("getCaveObject", 200, getCaveObject(id, ok))
    /\ UNCHANGED <<songVars, caveVars, issued, clientVars>>

\* POST /api/cave-objects: a fresh id, createCaveObject
PostCaveObject(id, color, ok) ==
    /\ Fresh("caveObject", id)
    /\ issued' = issued \cup {<<"caveObject", id>>}
    /\ createCaveObject(id, color, ok)
    /\ response' = Answer("POST /api/cave-objects", 200, {id})
    /\ UNCHANGED <<songVars, removedCaveObjects, clientVars>>

\* PUT /api/cave-objects/:id
PutCaveObject(id, color, ok) ==
    /\ updateCaveObject(id, color, ok)
    /\ response' = Answer("PUT /api/cave-objects/:id", 200, {})
    /\ UNCHANGED <<songVars, removedCaveObjects, issued, clientVars>>

\* DELETE /api/cave-objects/:id. The history keeps the objects that exist:
\* an id nanoid() has not produced yet names no object.
DeleteCaveObjectRoute(id, ok) ==
    /\ deleteCaveObject(id, ok)
    /\ removedCaveObjects' =
           (IF Fresh("caveObject", id) THEN removedCaveObjects
            ELSE removedCaveObjects \cup {id})
    /\ response' = Answer("DELETE /api/cave-objects/:id", 200, {})
    /\ UNCHANGED <<songVars, issued, clientVars>>

\* the server of the final revision, with empty tables and maps
InitServer == Mount("final")

RequestSong ==
    \/ \E hasFile \in BOOLEAN, id \in SongIds, ok \in BOOLEAN :
           UploadAudio(hasFile, id, ok)
    \/ \E ok \in BOOLEAN : GetSongs(ok)
    \/ \E id \in SongIds, ok \in BOOLEAN : GetSong(id, ok)
    \/ \E id \in SongIds, okGet \in BOOLEAN, okDelete \in BOOLEAN :
           DeleteSongRoute(id, okGet, okDelete)

RequestCaveObject ==
    \/ \E ok \in BOOLEAN : GetCaveObjects(ok)
    \/ \E id \in CaveObjectIds, ok \in BOOLEAN : GetCaveObject(id, ok)
    \/ \E id \in CaveObjectIds, color \in CaveColors, ok \in BOOLEAN :
           PostCaveObject(id, color, ok)
    \/ \E id \in CaveObjectIds, color \in CaveColors, ok \in BOOLEAN :
           PutCaveObject(id, color, ok)
    \/ \E id \in CaveObjectIds, ok \in BOOLEAN : DeleteCaveObjectRoute(id, ok)

NextSongs == RequestSong
SpecSongs == InitServer /\ [][NextSongs]_vars

NextCaveObjects == RequestCaveObject
SpecCaveObjects == InitServer /\ [][NextCaveObjects]_vars

\* C28: once createSong has returned a song, every later answer of
\* GET /api/songs contains it until deleteSong is called for it, whichever
\* database calls reject
C28_ReadYourWrites ==
    response.op = "GET /api/songs" => createdSongs \subseteq response.ids

\* C29: after DELETE /api/songs/:id has answered success, no later
\* GET /api/songs and no later getSong returns the song, whichever database
\* calls reject; and a DELETE for an id that neither the table nor the map
\* holds answers 404 and changes neither of them nor the uploads directory
C29_DeleteEffective ==
    /\ [](response.op \in {"GET /api/songs", "getSong"}
            => response.ids \cap removedSongs = {})
    /\ [][\A id \in SongIds, okGet \in BOOLEAN, okDelete \in BOOLEAN :
            (DeleteSongRoute(id, okGet, okDelete) /\ id \notin dbSongs \cup songsMap)
                => (response'.status = 404 /\ UNCHANGED storeVars)]_vars

\* C30: after deleteCaveObject has returned, no later answer of
\* getAllCaveObjects or getCaveObject contains the object, whichever
\* operations follow and whichever database calls reject
C30_DeletedStayDeleted ==
    response.op \in {"GET /api/cave-objects", "getCaveObject"}
        => response.ids \cap removedCaveObjects = {}

====
